---- MODULE Spec2Model ----
(***************************************************************************)
(* A model of the PLDA inference core, src/plda/model.py: the parameter    *)
(* store of class Model, the Fit orchestrator (Model.fit), the space       *)
(* transform pipeline D <-> X <-> U <-> U_model (Model.transform and the   *)
(* six elementary mappings) and the closed-form log-densities.             *)
(*                                                                         *)
(* Numbers.  Vectors and matrices hold integers; the loading matrices are  *)
(* unimodular and the reduction bases are rows of a permutation matrix, so *)
(* every transform is exact.  Log-densities are kept exactly as well, in   *)
(* the form  c2pi*log(2*pi) - (1/2)*log(lg) + q  with rational c2pi, lg, q *)
(* (see LAdd).                                                             *)
(*                                                                         *)
(* Python values.  None is <<>> and a present value x is <<x>>.  A call    *)
(* returns [st, val]: st is "ok" or the name of the exception raised.      *)
(* Array indices are 1-based here and 0-based in the source.               *)
(***************************************************************************)
EXTENDS Integers, Sequences, FiniteSets, TLC

\* Bounds of the model.
MaxDim == 2      \* largest raw feature count of a training set
MaxVal == 1      \* vector entries range over 0..MaxVal
MaxBatch == 2    \* largest number of rows of a batch given to a log-density
MaxPsi == 2      \* variances range over 1..MaxPsi

VARIABLES
    pca,                          \* self.pca: "None", or the name of a PCA object in heap
    m, A, Psi, relevant_U_dims, inv_A,      \* self.m .. self.inv_A (None or present)
    prior_params, posterior_params, posterior_predictive_params,
    heap,                         \* the PCA objects: "ext" is the caller's, "own" the model's
    res,                          \* the outcome of the call that has just returned
    pc                            \* the caller: "idle", or "returned" holding res

vars == <<pca, m, A, Psi, relevant_U_dims, inv_A, prior_params, posterior_params,
          posterior_predictive_params, heap, res, pc>>

params == <<pca, m, A, Psi, relevant_U_dims, inv_A, prior_params, posterior_params,
            posterior_predictive_params>>

----------------------------------------------------------------------------
\* Python values

None == << >>
Some(x) == <<x>>
IsNone(o) == Len(o) = 0
Get(o) == o[1]

Ok(v) == [st |-> "ok", val |-> <<v>>]
Err(e) == [st |-> e, val |-> << >>]
IsOk(r) == r.st = "ok"

Max(a, b) == IF a >= b THEN a ELSE b
Min(a, b) == IF a <= b THEN a ELSE b

RECURSIVE SumTo(_, _)
\* sum of f[1] .. f[n]
SumTo(f, n) == IF n = 0 THEN 0 ELSE f[n] + SumTo(f, n - 1)

Dot(u, v) == SumTo([j \in 1..Len(u) |-> u[j] * v[j]], Len(u))

\* numpy arrays: nd is the number of axes; el is the vector (nd = 1), the
\* sequence of rows (nd = 2), or rows of one-element columns (nd = 3).
Arr1(v) == [nd |-> 1, el |-> v]
Arr2(rows) == [nd |-> 2, el |-> rows]
Arr3(rows) == [nd |-> 3, el |-> rows]

\* data.shape[-1]
LastDim(a) == IF a.nd = 1 THEN Len(a.el) ELSE Len(a.el[1])

\* data[None, :] when len(data.shape) == 1
Promote(a) == IF a.nd = 1 THEN Arr2(<<a.el>>) ELSE a

\* numpy broadcasting of a length-1 axis
Bc(v, j) == IF Len(v) = 1 THEN v[1] ELSE v[j]
Broadcastable(a, b) == a = b \/ a = 1 \/ b = 1

MapRows(rows, F(_)) == [i \in 1..Len(rows) |-> F(rows[i])]

----------------------------------------------------------------------------
\* sklearn.decomposition.PCA, as far as model.py uses it.  An object is
\* [n_components, fit]: n_components is the constructor's argument (0 for
\* None); fit is None until fit() has run and then holds the fitted
\* attributes n_components_, n_features_, mean_, components_.

\* A training set is known by what fit() reads of it: its feature count,
\* sample count, column mean, principal axes in decreasing variance (rows of
\* a permutation matrix) and the rank of its within-category scatter.
NSamples == 6

ColumnMean(dim) == [j \in 1..dim |-> IF j = 1 THEN 1 ELSE 0]
PrincipalAxes(dim) == [i \in 1..dim |-> [j \in 1..dim |-> IF j = dim + 1 - i THEN 1 ELSE 0]]

\* labels: the categories of a training set, NSamples \div 2 samples each
Categories == {"a", "b"}

DataSet(d, r) == [dim |-> d, n |-> NSamples, rank_Sw |-> r, mean |-> ColumnMean(d),
                  axes |-> PrincipalAxes(d)]

DataSets ==
    { DataSet(p[1], p[2]) :
        p \in { q \in (1..MaxDim) \X (1..MaxDim) : q[2] <= q[1] /\ q[2] >= q[1] - 1 } }

NewPCA(n_components) == [n_components |-> n_components, fit |-> None]

\* PCA.fit(data): n_components None keeps min(n_samples, n_features)
\* components; more components than that is a ValueError.
PCA_fit(p, data) ==
    LET k == IF p.n_components = 0 THEN Min(data.n, data.dim) ELSE p.n_components
    IN  IF k > Min(data.n, data.dim) THEN Err("ValueError")
        ELSE Ok([n_components |-> p.n_components,
                 fit |-> Some([n_components_ |-> k, n_features_ |-> data.dim,
                               mean_ |-> data.mean,
                               components_ |-> SubSeq(data.axes, 1, k)])])

\* PCA.transform(X): (X - mean_) . components_^T
PCA_transform(p, data) ==
    IF IsNone(p.fit) THEN Err("NotFittedError")
    ELSE LET f == Get(p.fit)
             Row(x) == [i \in 1..f.n_components_ |->
                          Dot([j \in 1..f.n_features_ |-> x[j] - f.mean_[j]], f.components_[i])]
         IN  IF LastDim(data) # f.n_features_ THEN Err("ValueError")
             ELSE Ok(Arr2(MapRows(data.el, Row)))

\* PCA.inverse_transform(X): X . components_ + mean_
PCA_inverse_transform(p, data) ==
    IF IsNone(p.fit) THEN Err("AttributeError")
    ELSE LET f == Get(p.fit)
             Row(x) == [j \in 1..f.n_features_ |->
                          SumTo([i \in 1..f.n_components_ |-> x[i] * f.components_[i][j]],
                                f.n_components_) + f.mean_[j]]
         IN  IF LastDim(data) # f.n_components_ THEN Err("ValueError")
             ELSE Ok(Arr2(MapRows(data.el, Row)))

----------------------------------------------------------------------------
\* The space walk and the six elementary mappings (model.py 29-79)

U_model_to_D == <<"U_model", "U", "X", "D">>
D_to_U_model == [i \in 1..4 |-> U_model_to_D[5 - i]]
Spaces == {"D", "X", "U", "U_model"}

\* list.index, 0-based as in the source
Index(list, x) == (CHOOSE i \in 1..Len(list) : list[i] = x) - 1

\* list[a:b], a and b 0-based
Slice(list, a, b) == IF b <= a THEN << >> ELSE SubSeq(list, a + 1, b)

Zip(xs, ys) == [i \in 1..Min(Len(xs), Len(ys)) |-> <<xs[i], ys[i]>>]

\* get_space_walk with lines 41-42 left out: the indices are not taken again
\* in the reversed list
get_space_walk_stale_index(from_space, to_space) ==
    IF ~(from_space \in Spaces /\ to_space \in Spaces) THEN Err("AssertionError")
    ELSE LET from_idx == Index(U_model_to_D, from_space)
             to_idx == Index(U_model_to_D, to_space)
             spaces == IF to_idx < from_idx THEN D_to_U_model ELSE U_model_to_D
             from_spaces == Slice(spaces, from_idx, to_idx)
             to_spaces == Slice(spaces, from_idx + 1, to_idx + 1)
         IN  Ok(Zip(from_spaces, to_spaces))

get_space_walk(from_space, to_space) ==
    IF ~(from_space \in Spaces /\ to_space \in Spaces) THEN Err("AssertionError")
    ELSE LET from_idx0 == Index(U_model_to_D, from_space)
             to_idx0 == Index(U_model_to_D, to_space)
             back == to_idx0 < from_idx0
             spaces == IF back THEN D_to_U_model ELSE U_model_to_D
             from_idx == IF back THEN Index(D_to_U_model, from_space) ELSE from_idx0
             to_idx == IF back THEN Index(D_to_U_model, to_space) ELSE to_idx0
             from_spaces == Slice(spaces, from_idx, to_idx)
             to_spaces == Slice(spaces, from_idx + 1, to_idx + 1)
         IN  Ok(Zip(from_spaces, to_spaces))

transform_D_to_X(data, pca_) ==
    IF IsNone(pca_) THEN Ok(data) ELSE PCA_transform(Get(pca_), data)

\* np.matmul(data - m, inv_A.T)
transform_X_to_U(data, inv_A_, m_) ==
    IF IsNone(m_) THEN Err("TypeError")
    ELSE LET mv == Get(m_)
             iA == Get(inv_A_)
             w == LastDim(data)
             bw == Max(w, Len(mv))
             Row(x) == [i \in 1..Len(iA) |->
                          SumTo([j \in 1..bw |-> (Bc(x, j) - Bc(mv, j)) * iA[i][j]], bw)]
         IN  IF ~Broadcastable(w, Len(mv)) THEN Err("ValueError")
             ELSE IF bw # Len(iA) THEN Err("ValueError")
             ELSE Ok(Arr2(MapRows(data.el, Row)))

\* data[..., relevant_U_dims]; indexing with None appends an axis
transform_U_to_U_model(data, relevant_) ==
    IF IsNone(relevant_)
    THEN Ok(Arr3(MapRows(data.el, LAMBDA x : [j \in 1..Len(x) |-> <<x[j]>>])))
    ELSE LET rel == Get(relevant_)
             Row(x) == [i \in 1..Len(rel) |-> x[rel[i]]]
         IN  IF \E i \in 1..Len(rel) : rel[i] > LastDim(data) THEN Err("IndexError")
             ELSE Ok(Arr2(MapRows(data.el, Row)))

\* U = zeros; U[..., relevant_U_dims] = data
transform_U_model_to_U(data, relevant, U_dimensionality) ==
    LET w == LastDim(data)
        Row(x) == [j \in 1..U_dimensionality |->
                     IF \E i \in 1..Len(relevant) : relevant[i] = j
                     THEN Bc(x, CHOOSE i \in 1..Len(relevant) : relevant[i] = j)
                     ELSE 0]
    IN  IF ~(w = Len(relevant) \/ w = 1) THEN Err("ValueError")
        ELSE Ok(Arr2(MapRows(data.el, Row)))

\* transform_U_to_X without the mean: np.matmul(data, A.T)
transform_U_to_X_no_mean(data, A_, m_) ==
    IF IsNone(A_) THEN Err("AttributeError")
    ELSE LET a == Get(A_)
             Row(x) == [i \in 1..Len(a) |-> Dot(x, a[i])]
         IN  IF LastDim(data) # Len(a) THEN Err("ValueError")
             ELSE Ok(Arr2(MapRows(data.el, Row)))

\* m + np.matmul(data, A.T)
transform_U_to_X(data, A_, m_) ==
    IF IsNone(A_) THEN Err("AttributeError")
    ELSE LET a == Get(A_)
             mv == Get(m_)
             k == Len(a)
             Row(x) == [i \in 1..k |-> mv[i] + Dot(x, a[i])]
         IN  IF LastDim(data) # k THEN Err("ValueError")
             ELSE Ok(Arr2(MapRows(data.el, Row)))

transform_X_to_D(data, pca_) ==
    IF IsNone(pca_) THEN Ok(data) ELSE PCA_inverse_transform(Get(pca_), data)

----------------------------------------------------------------------------
\* Exact arithmetic for the log-densities

Abs(x) == IF x < 0 THEN -x ELSE x

RECURSIVE GCD(_, _)
GCD(a, b) == IF b = 0 THEN a ELSE GCD(b, a % b)

\* the rational n/d in lowest terms, d > 0
Rat(n, d) ==
    LET g == GCD(Abs(n), Abs(d))
        s == IF d < 0 THEN -1 ELSE 1
    IN  <<(s * n) \div g, (s * d) \div g>>

RInt(i) == <<i, 1>>
RAdd(x, y) == Rat(x[1] * y[2] + y[1] * x[2], x[2] * y[2])
RNeg(x) == <<-x[1], x[2]>>
RSub(x, y) == RAdd(x, RNeg(y))
RMul(x, y) == Rat(x[1] * y[1], x[2] * y[2])
RDiv(x, y) == Rat(x[1] * y[2], x[2] * y[1])
RHalf == <<1, 2>>

RECURSIVE RSumTo(_, _)
RSumTo(f, n) == IF n = 0 THEN RInt(0) ELSE RAdd(f[n], RSumTo(f, n - 1))

RECURSIVE RProdTo(_, _)
RProdTo(f, n) == IF n = 0 THEN RInt(1) ELSE RMul(f[n], RProdTo(f, n - 1))

\* A log-density c2pi*log(2*pi) - (1/2)*log(lg) + q.  log(2*pi), the logs of
\* the rationals and 1 are independent over the rationals, so two values are
\* equal exactly when their three parts are.
LVal(c2pi, lg, q) == [c2pi |-> c2pi, lg |-> lg, q |-> q]
LAdd(x, y) == LVal(RAdd(x.c2pi, y.c2pi), RMul(x.lg, y.lg), RAdd(x.q, y.q))
LSub(x, y) == LVal(RSub(x.c2pi, y.c2pi), RDiv(x.lg, y.lg), RSub(x.q, y.q))
LZero == LVal(RInt(0), RInt(1), RInt(0))

RECURSIVE LSumTo(_, _)
LSumTo(f, n) == IF n = 0 THEN LZero ELSE LAdd(f[n], LSumTo(f, n - 1))

\* scipy.stats.multivariate_normal(mean, np.diag(cov_diag)).logpdf(x), one
\* value per row of x; mean and cov_diag are vectors of rationals.
gaussian_logpdf(mean, cov_diag, x) ==
    LET d == Len(mean)
        Row(v) == LVal(RMul(RNeg(RHalf), RInt(d)),
                       RProdTo(cov_diag, d),
                       RMul(RNeg(RHalf),
                            RSumTo([j \in 1..d |->
                                      RDiv(RMul(RSub(RInt(v[j]), mean[j]),
                                                RSub(RInt(v[j]), mean[j])),
                                           cov_diag[j])], d)))
    IN  MapRows(Promote(x).el, Row)

----------------------------------------------------------------------------
\* class Model: the methods that read the parameter store

\* the object self.pca refers to
pca_obj == IF pca = "None" THEN None ELSE Some(heap[pca])

get_dimensionality(space) ==
    IF space = "U_model"
    THEN IF IsNone(relevant_U_dims) THEN Err("AttributeError")
         ELSE Ok(Len(Get(relevant_U_dims)))
    ELSE IF space = "U" \/ space = "X"
    THEN IF IsNone(A) THEN Err("AttributeError") ELSE Ok(Len(Get(A)))
    ELSE IF space = "D"
    THEN IF pca = "None"
         THEN IF IsNone(m) THEN Err("AttributeError") ELSE Ok(Len(Get(m)))
         ELSE IF IsNone(heap[pca].fit) THEN Err("AttributeError")
              ELSE Ok(Get(heap[pca].fit).n_features_)
    ELSE Err("ValueError")

\* the six direct branches of Model.transform
ElementaryPairs == { <<"D", "X">>, <<"X", "U">>, <<"U", "U_model">>,
                     <<"U_model", "U">>, <<"U", "X">>, <<"X", "D">> }

Elementary(data, from_space, to_space) ==
    IF from_space = "D" /\ to_space = "X" THEN transform_D_to_X(data, pca_obj)
    ELSE IF from_space = "X" /\ to_space = "U" THEN transform_X_to_U(data, inv_A, m)
    ELSE IF from_space = "U" /\ to_space = "U_model"
    THEN transform_U_to_U_model(data, relevant_U_dims)
    ELSE IF from_space = "U_model" /\ to_space = "U"
    THEN LET dim == get_dimensionality("U")
         IN  IF ~IsOk(dim) THEN Err(dim.st)
             ELSE transform_U_model_to_U(data, Get(relevant_U_dims), Get(dim.val))
    ELSE IF from_space = "U" /\ to_space = "X" THEN transform_U_to_X(data, A, m)
    ELSE transform_X_to_D(data, pca_obj)

RECURSIVE transform(_, _, _)
RECURSIVE WalkFrom(_, _, _)

\* the loop of Model.transform over the space walk, from its i-th pair on
WalkFrom(transformed, walk, i) ==
    IF i > Len(walk) \/ ~IsOk(transformed) THEN transformed
    ELSE WalkFrom(transform(Get(transformed.val), walk[i][1], walk[i][2]), walk, i + 1)

transform(data, from_space, to_space) ==
    LET d == Promote(data)
    IN  IF <<from_space, to_space>> \in ElementaryPairs
        THEN Elementary(d, from_space, to_space)
        ELSE LET walk == get_space_walk(from_space, to_space)
             IN  IF ~IsOk(walk) THEN Err(walk.st)
                 ELSE WalkFrom(Ok(d), Get(walk.val), 1)

\* assert x.shape[-1] == self.get_dimensionality("U_model")
AssertUModel(x) ==
    LET dim == get_dimensionality("U_model")
    IN  IF ~IsOk(dim) THEN dim.st
        ELSE IF LastDim(x) # Get(dim.val) THEN "AssertionError"
        ELSE "ok"

calc_logp_prior(v_model) ==
    IF AssertUModel(v_model) # "ok" THEN Err(AssertUModel(v_model))
    ELSE Ok(gaussian_logpdf(Get(prior_params).mean, Get(prior_params).cov_diag, v_model))

calc_logp_posterior(v_model, category) ==
    IF AssertUModel(v_model) # "ok" THEN Err(AssertUModel(v_model))
    ELSE IF category \notin DOMAIN Get(posterior_params) THEN Err("KeyError")
    ELSE LET p == Get(posterior_params)[category]
         IN  Ok(gaussian_logpdf(p.mean, p.cov_diag, v_model))

calc_logp_posterior_predictive(U_model, category) ==
    IF AssertUModel(U_model) # "ok" THEN Err(AssertUModel(U_model))
    ELSE IF category \notin DOMAIN Get(posterior_predictive_params) THEN Err("KeyError")
    ELSE LET p == Get(posterior_predictive_params)[category]
         IN  Ok(gaussian_logpdf(p.mean, p.cov_diag, U_model))

\* the marginal likelihood with n*psi in place of n*psi + 1 (line 121)
calc_logp_marginal_likelihood_no_eye(U_model) ==
    IF AssertUModel(U_model) # "ok" THEN Err(AssertUModel(U_model))
    ELSE LET x == Promote(U_model).el
             n == Len(x)
             psi_diag == Get(prior_params).cov_diag
             Dim(j) ==
                 LET n_psi == RMul(RInt(n), psi_diag[j])
                     sum_of_squares == RInt(SumTo([i \in 1..n |-> x[i][j] * x[i][j]], n))
                     mean == Rat(SumTo([i \in 1..n |-> x[i][j]], n), n)
                 IN  LVal(RMul(RNeg(RHalf), RInt(n)), n_psi,
                          RAdd(RMul(RNeg(RHalf), sum_of_squares),
                               RDiv(RMul(RHalf, RMul(RMul(RInt(n * n), psi_diag[j]),
                                                     RMul(mean, mean))),
                                    n_psi)))
         IN  Ok(LSumTo([j \in 1..Len(psi_diag) |-> Dim(j)], Len(psi_diag)))

calc_logp_marginal_likelihood(U_model) ==
    IF AssertUModel(U_model) # "ok" THEN Err(AssertUModel(U_model))
    ELSE LET x == Promote(U_model).el
             n == Len(x)
             psi_diag == Get(prior_params).cov_diag
             Dim(j) ==
                 LET n_psi_plus_eye == RAdd(RMul(RInt(n), psi_diag[j]), RInt(1))
                     sum_of_squares == RInt(SumTo([i \in 1..n |-> x[i][j] * x[i][j]], n))
                     log_exponent_1 == RMul(RNeg(RHalf), sum_of_squares)
                     mean == Rat(SumTo([i \in 1..n |-> x[i][j]], n), n)
                     log_exponent_2 ==
                         RDiv(RMul(RHalf, RMul(RMul(RInt(n * n), psi_diag[j]),
                                               RMul(mean, mean))),
                              n_psi_plus_eye)
                 IN  LVal(RMul(RNeg(RHalf), RInt(n)), n_psi_plus_eye,
                          RAdd(log_exponent_1, log_exponent_2))
         IN  Ok(LSumTo([j \in 1..Len(psi_diag) |-> Dim(j)], Len(psi_diag)))

\* np.concatenate([a, b]) along axis 0
concatenate(a, b) ==
    IF a.nd # b.nd THEN Err("ValueError")
    ELSE IF a.nd = 2 /\ LastDim(a) # LastDim(b) THEN Err("ValueError")
    ELSE Ok([nd |-> a.nd, el |-> a.el \o b.el])

\* the ratio with the parentheses of line 159 dropped: ll_same - ll_p + ll_g
calc_same_diff_no_parentheses(U_model_p, U_model_g) ==
    IF AssertUModel(U_model_p) # "ok" THEN Err(AssertUModel(U_model_p))
    ELSE IF AssertUModel(U_model_g) # "ok" THEN Err(AssertUModel(U_model_g))
    ELSE LET U_model_same == concatenate(U_model_p, U_model_g)
         IN  IF ~IsOk(U_model_same) THEN Err(U_model_same.st)
             ELSE LET ll_same == calc_logp_marginal_likelihood(Get(U_model_same.val))
                      ll_p == calc_logp_marginal_likelihood(U_model_p)
                      ll_g == calc_logp_marginal_likelihood(U_model_g)
                  IN  IF ~IsOk(ll_same) THEN Err(ll_same.st)
                      ELSE Ok(LAdd(LSub(Get(ll_same.val), Get(ll_p.val)), Get(ll_g.val)))

calc_same_diff_log_likelihood_ratio(U_model_p, U_model_g) ==
    IF AssertUModel(U_model_p) # "ok" THEN Err(AssertUModel(U_model_p))
    ELSE IF AssertUModel(U_model_g) # "ok" THEN Err(AssertUModel(U_model_g))
    ELSE LET U_model_same == concatenate(U_model_p, U_model_g)
         IN  IF ~IsOk(U_model_same) THEN Err(U_model_same.st)
             ELSE LET ll_same == calc_logp_marginal_likelihood(Get(U_model_same.val))
                      ll_p == calc_logp_marginal_likelihood(U_model_p)
                      ll_g == calc_logp_marginal_likelihood(U_model_g)
                  IN  IF ~IsOk(ll_same) THEN Err(ll_same.st)
                      ELSE Ok(LSub(Get(ll_same.val), LAdd(Get(ll_p.val), Get(ll_g.val))))

----------------------------------------------------------------------------
\* The estimators of plda/optimizer.py, which model.py imports

Identity(k) == [i \in 1..k |-> [j \in 1..k |-> IF i = j THEN 1 ELSE 0]]
Shear(k) == [i \in 1..k |-> [j \in 1..k |-> IF j = i \/ j = i + 1 THEN 1 ELSE 0]]
ShearInv(k) ==
    [i \in 1..k |-> [j \in 1..k |-> IF j < i THEN 0 ELSE IF (j - i) % 2 = 0 THEN 1 ELSE -1]]

MatMul(P, Q) ==
    [i \in 1..Len(P) |-> [j \in 1..Len(Q[1]) |->
        SumTo([l \in 1..Len(Q) |-> P[i][l] * Q[l][j]], Len(Q))]]

\* loading matrices with their inverses
Loadings(k) ==
    { l \in {Identity(k), Shear(k)} \X {Identity(k), ShearInv(k)} :
        MatMul(l[1], l[2]) = Identity(k) }

\* strictly positive variances over the k dimensions of U
PsiChoices(k) ==
    { [i \in 1..k |-> c] : c \in 1..MaxPsi } \cup { [i \in 1..k |-> 1 + (i % MaxPsi)] }

\* non-empty sets of indices into U, without duplicates, in increasing order
RelevantChoices(k) ==
    { CHOOSE s \in [1..Cardinality(S) -> S] :
          \A i, j \in 1..Cardinality(S) : i < j => s[i] < s[j] :
      S \in (SUBSET (1..k)) \ {{}} }

MLTable ==
    [k \in 1..MaxDim |->
        { [A |-> l[1], inv_A |-> l[2], Psi |-> psi, relevant_U_dims |-> rel] :
            l \in Loadings(k), psi \in PsiChoices(k), rel \in RelevantChoices(k) }]

\* optimize_maximum_likelihood(X, labels): the outcomes it may return for
\* data X of k features; m is the centroid of X.
optimize_maximum_likelihood(X) ==
    { [m |-> X.mean, A |-> t.A, Psi |-> t.Psi, relevant_U_dims |-> t.relevant_U_dims,
       inv_A |-> t.inv_A] : t \in MLTable[X.dim] }

\* get_prior_params(Psi, dims): zero mean, the variances of the relevant dimensions
get_prior_params(Psi_, dims) ==
    [mean |-> [i \in 1..Len(dims) |-> RInt(0)],
     cov_diag |-> [i \in 1..Len(dims) |-> RInt(Psi_[dims[i]])]]

\* the sum of a category's training vectors in U_model
CategorySum(c, r) == [j \in 1..r |-> IF c = "a" THEN 1 ELSE -1]

\* get_posterior_params(U_model, labels, prior_params): the conjugate update
\* of the prior by the n_k samples of each category
get_posterior_params(n_k, prior) ==
    [c \in Categories |->
        LET r == Len(prior.cov_diag)
            cov == [j \in 1..r |->
                      RDiv(prior.cov_diag[j],
                           RAdd(RInt(1), RMul(RInt(n_k), prior.cov_diag[j])))]
        IN  [mean |-> [j \in 1..r |-> RMul(RInt(CategorySum(c, r)[j]), cov[j])],
             cov_diag |-> cov]]

\* get_posterior_predictive_params(posterior_params): unit noise added
get_posterior_predictive_params(post) ==
    [c \in DOMAIN post |->
        [mean |-> post[c].mean,
         cov_diag |-> [j \in 1..Len(post[c].cov_diag) |->
                         RAdd(post[c].cov_diag[j], RInt(1))]]]

----------------------------------------------------------------------------
\* Model.fit

\* the caller's basis: a PCA fitted beforehand on other data of MaxDim features
ForeignData == [dim |-> MaxDim, n |-> NSamples, rank_Sw |-> MaxDim,
                mean |-> [j \in 1..MaxDim |-> 0], axes |-> Identity(MaxDim)]
ExternalBasis == Get(PCA_fit(NewPCA(Max(1, MaxDim - 1)), ForeignData).val)

\* an object nothing refers to any more
Collect(h, ref) == IF ref = "own" THEN h ELSE [h EXCEPT !.own = NewPCA(0)]

FitState(st, ref, h, warn, X) ==
    [st |-> st, pca |-> ref, heap |-> Collect(h, ref), warn |-> warn, X |-> X]

NoX == [dim |-> 0, mean |-> << >>]

\* lines 175-199: resolve the reduction policy; self.pca is assigned here
FitResolve(h, data, feat_dim, pca_arg) ==
    IF pca_arg = "None"
    THEN LET matrix_rank == data.rank_Sw
             differs == feat_dim # matrix_rank
         IN  FitState("ok", "own",
                      [h EXCEPT !.own = NewPCA(IF differs THEN feat_dim ELSE matrix_rank)],
                      IF differs THEN {"feat_dim"} ELSE {}, NoX)
    ELSE IF pca_arg = "skip"
    THEN FitState("ok", "None", h, {}, NoX)
    ELSE IF feat_dim # 0 /\ IsNone(h[pca_arg].fit)
    THEN FitState("AttributeError", pca_arg, h, {}, NoX)
    ELSE IF feat_dim # 0 /\ Get(h[pca_arg].fit).n_components_ # feat_dim
    THEN FitState("ValueError", pca_arg, h, {}, NoX)
    ELSE IF IsNone(h[pca_arg].fit)
    THEN FitState("AttributeError", pca_arg, h, {}, NoX)
    ELSE IF data.dim # Get(h[pca_arg].fit).n_features_
    THEN FitState("ValueError", pca_arg, h, {}, NoX)
    ELSE FitState("ok", pca_arg, h, {}, NoX)

\* lines 201-224: the check of feat_dim without a basis, the fit of the
\* basis, and X = transform(data, "D", "X"), known by its width and centroid
\* FitReduce without the check of lines 201-206
FitReduce_unchecked(s, data, feat_dim) ==
    IF s.st # "ok" THEN s
    ELSE IF s.pca = "None"
    THEN FitState("ok", s.pca, s.heap, s.warn \cup {"skip"},
                  [dim |-> data.dim, mean |-> data.mean])
    ELSE LET fitted == PCA_fit(s.heap[s.pca], data)
         IN  IF ~IsOk(fitted) THEN FitState(fitted.st, s.pca, s.heap, s.warn, NoX)
             ELSE LET k == Get(Get(fitted.val).fit).n_components_
                  IN  FitState("ok", s.pca, [s.heap EXCEPT ![s.pca] = Get(fitted.val)],
                               s.warn, [dim |-> k, mean |-> [j \in 1..k |-> 0]])

FitReduce(s, data, feat_dim) ==
    IF s.st # "ok" THEN s
    ELSE IF feat_dim # 0 /\ feat_dim # data.dim /\ s.pca = "None"
    THEN FitState("ValueError", s.pca, s.heap, s.warn, NoX)
    ELSE IF s.pca = "None"
    THEN FitState("ok", s.pca, s.heap, s.warn \cup {"skip"},
                  [dim |-> data.dim, mean |-> data.mean])
    ELSE LET fitted == PCA_fit(s.heap[s.pca], data)
         IN  IF ~IsOk(fitted) THEN FitState(fitted.st, s.pca, s.heap, s.warn, NoX)
             ELSE LET k == Get(Get(fitted.val).fit).n_components_
                  IN  FitState("ok", s.pca, [s.heap EXCEPT ![s.pca] = Get(fitted.val)],
                               s.warn, [dim |-> k, mean |-> [j \in 1..k |-> 0]])

FitPrep(h, data, feat_dim, pca_arg) ==
    FitReduce(FitResolve(h, data, feat_dim, pca_arg), data, feat_dim)

\* lines 236-242: the Bayesian parameter sets derived from the estimate
FitBayes(Psi_, dims, n_k) ==
    LET prior == get_prior_params(Psi_, dims)
        posterior == get_posterior_params(n_k, prior)
    IN  [prior_params |-> prior, posterior_params |-> posterior,
         posterior_predictive_params |-> get_posterior_predictive_params(posterior)]

\* FitBayes, tabulated once over the estimates of optimize_maximum_likelihood
BayesMemo ==
    [k \in 1..MaxDim |->
        [t \in MLTable[k] |->
            FitBayes(t.Psi, t.relevant_U_dims, NSamples \div Cardinality(Categories))]]

\* lines 226-242: the parameter fields a successful fit assigns
FitStore(ml) ==
    LET b == BayesMemo[Len(ml.A)][[A |-> ml.A, inv_A |-> ml.inv_A, Psi |-> ml.Psi,
                                   relevant_U_dims |-> ml.relevant_U_dims]]
    IN  [m |-> ml.m, A |-> ml.A, Psi |-> ml.Psi, relevant_U_dims |-> ml.relevant_U_dims,
         inv_A |-> ml.inv_A, prior_params |-> b.prior_params,
         posterior_params |-> b.posterior_params,
         posterior_predictive_params |-> b.posterior_predictive_params]

FeatDims == 0..(MaxDim + 1)          \* 0 is feat_dim=None
PcaArgs == {"None", "skip", "ext"}   \* pca=None, pca="skip", pca=<the caller's basis>

FitCall(data, labels_ok, feat_dim, pca_arg) ==
    LET args == [data |-> data, labels_ok |-> labels_ok, feat_dim |-> feat_dim,
                 pca_arg |-> pca_arg]
        s == FitPrep(heap, data, feat_dim, pca_arg)
    IN  IF ~labels_ok
        THEN /\ res' = [op |-> "fit", args |-> args, st |-> "AssertionError",
                        val |-> None, warn |-> {}]
             /\ UNCHANGED <<params, heap>>
        ELSE /\ pca' = s.pca
             /\ heap' = s.heap
             /\ res' = [op |-> "fit", args |-> args, st |-> s.st, val |-> None,
                        warn |-> s.warn]
             /\ IF s.st # "ok"
                THEN UNCHANGED <<m, A, Psi, relevant_U_dims, inv_A, prior_params,
                                 posterior_params, posterior_predictive_params>>
                ELSE \E ml \in optimize_maximum_likelihood(s.X) :
                        LET f == FitStore(ml)
                        IN  /\ m' = Some(f.m)
                            /\ A' = Some(f.A)
                            /\ Psi' = Some(f.Psi)
                            /\ relevant_U_dims' = Some(f.relevant_U_dims)
                            /\ inv_A' = Some(f.inv_A)
                            /\ prior_params' = Some(f.prior_params)
                            /\ posterior_params' = Some(f.posterior_params)
                            /\ posterior_predictive_params' =
                                   Some(f.posterior_predictive_params)

Fit ==
    /\ pc = "idle"
    /\ pc' = "returned"
    /\ \E data \in DataSets, labels_ok \in BOOLEAN, feat_dim \in FeatDims,
          pca_arg \in PcaArgs : FitCall(data, labels_ok, feat_dim, pca_arg)

----------------------------------------------------------------------------
\* The calls a caller makes on a model, one at a time.  The arguments are
\* drawn from small sets: vectors of the width the model expects of the space
\* (or of width 1), as a 1-D array or as a one-row batch.

NoCall == [op |-> "none", args |-> << >>, st |-> "ok", val |-> None, warn |-> {}]

Returned(op, args, r) ==
    /\ res' = [op |-> op, args |-> args, st |-> r.st, val |-> r.val, warn |-> {}]
    /\ pc' = "returned"
    /\ UNCHANGED <<params, heap>>

\* rows of width w: the constant rows and one row of differing entries
Rows(w) == { [j \in 1..w |-> c] : c \in 0..MaxVal } \cup { [j \in 1..w |-> j % (MaxVal + 1)] }
AllRows(w) == [1..w -> 0..MaxVal]
RowSet(w, all) == IF all THEN AllRows(w) ELSE Rows(w)

Vectors(rows) == { Arr1(r) : r \in rows } \cup { Arr2(<<r>>) : r \in rows }
Batches(rows) ==
    { Arr1(r) : r \in rows } \cup
    { Arr2(b) : b \in UNION { [1..n -> rows] : n \in 1..MaxBatch } }

ExpectedWidth(space) ==
    LET dim == get_dimensionality(space) IN IF IsOk(dim) THEN Get(dim.val) ELSE 1
CallWidths(space) == {ExpectedWidth(space), 1}

TransformCall(all) ==
    /\ pc = "idle"
    /\ \E from_space \in Spaces, to_space \in Spaces :
         \E w \in CallWidths(from_space) :
            \E data \in Vectors(RowSet(w, all)) :
               Returned("transform",
                        [data |-> data, from_space |-> from_space, to_space |-> to_space],
                        transform(data, from_space, to_space))

Transform == TransformCall(FALSE)

GetDimensionality ==
    /\ pc = "idle"
    /\ \E space \in Spaces \cup {"Z"} :
         Returned("get_dimensionality", [space |-> space], get_dimensionality(space))

QueryCategories == {"a", "z"}

LogpPrior ==
    /\ pc = "idle"
    /\ \E w \in CallWidths("U_model") : \E v \in Vectors(Rows(w)) :
         Returned("logp_prior", [data |-> v], calc_logp_prior(v))

LogpPosterior ==
    /\ pc = "idle"
    /\ \E w \in CallWidths("U_model") : \E v \in Vectors(Rows(w)), c \in QueryCategories :
         Returned("logp_posterior", [data |-> v, category |-> c],
                  calc_logp_posterior(v, c))

LogpPosteriorPredictive ==
    /\ pc = "idle"
    /\ \E w \in CallWidths("U_model") : \E v \in Vectors(Rows(w)), c \in QueryCategories :
         Returned("logp_posterior_predictive", [data |-> v, category |-> c],
                  calc_logp_posterior_predictive(v, c))

LogpMarginalLikelihoodCall(all) ==
    /\ pc = "idle"
    /\ \E w \in CallWidths("U_model") :
         \E U \in (IF all THEN Batches(Rows(w)) ELSE Vectors(Rows(w))) :
            Returned("logp_marginal_likelihood", [data |-> U],
                     calc_logp_marginal_likelihood(U))

LogpMarginalLikelihood == LogpMarginalLikelihoodCall(FALSE)

SameDiffCall(all) ==
    /\ pc = "idle"
    /\ \E w \in CallWidths("U_model") :
         \E p, g \in (IF all THEN Batches(Rows(w)) ELSE Vectors(Rows(w))) :
            Returned("same_diff_log_likelihood_ratio", [p |-> p, g |-> g],
                     calc_same_diff_log_likelihood_ratio(p, g))

SameDiff == SameDiffCall(FALSE)

\* the caller takes the outcome and goes on
Return ==
    /\ pc = "returned"
    /\ pc' = "idle"
    /\ res' = NoCall
    /\ UNCHANGED <<params, heap>>

----------------------------------------------------------------------------
\* The model after construction (Model.__init__), and its life

InitHeap == [ext |-> ExternalBasis, own |-> NewPCA(0)]

Init ==
    /\ pca = "None"
    /\ m = None /\ A = None /\ Psi = None /\ relevant_U_dims = None /\ inv_A = None
    /\ prior_params = None /\ posterior_params = None
    /\ posterior_predictive_params = None
    /\ heap = InitHeap
    /\ res = NoCall
    /\ pc = "idle"

Next ==
    \/ Fit
    \/ Transform
    \/ GetDimensionality
    \/ LogpPrior
    \/ LogpPosterior
    \/ LogpPosteriorPredictive
    \/ LogpMarginalLikelihood
    \/ SameDiff
    \/ Return

Spec == Init /\ [][Next]_vars

\* A model on which one fit has succeeded, for the claims about the
\* transforms and the log-densities of a fitted model.
InitFitted(choices(_)) ==
    \E data \in DataSets, feat_dim \in FeatDims, pca_arg \in PcaArgs :
       LET s == FitPrep(InitHeap, data, feat_dim, pca_arg)
       IN  /\ s.st = "ok"
           /\ \E ml \in choices(s.X) :
                 LET f == FitStore(ml)
                 IN  /\ pca = s.pca
                     /\ heap = s.heap
                     /\ m = Some(f.m)
                     /\ A = Some(f.A)
                     /\ Psi = Some(f.Psi)
                     /\ relevant_U_dims = Some(f.relevant_U_dims)
                     /\ inv_A = Some(f.inv_A)
                     /\ prior_params = Some(f.prior_params)
                     /\ posterior_params = Some(f.posterior_params)
                     /\ posterior_predictive_params = Some(f.posterior_predictive_params)
                     /\ res = NoCall
                     /\ pc = "idle"

TransformAll == TransformCall(TRUE)

InitT == InitFitted(optimize_maximum_likelihood)
NextT == TransformAll \/ Return
SpecT == InitT /\ [][NextT]_vars

\* fits without a basis whose estimate relates U and U_model to X trivially
PlainEstimates(X) ==
    { ml \in optimize_maximum_likelihood(X) :
        ml.A = Identity(X.dim) /\ Len(ml.relevant_U_dims) = X.dim }

LogpMarginalLikelihoodAll == LogpMarginalLikelihoodCall(TRUE)
SameDiffAll == SameDiffCall(TRUE)

InitLL == pca = "None" /\ InitFitted(PlainEstimates)
NextLL == LogpMarginalLikelihoodAll \/ SameDiffAll \/ Return
SpecLL == InitLL /\ [][NextLL]_vars

----------------------------------------------------------------------------
\* Claims.  The spec's ConfigurationError is the ValueError the source raises.

Outcome == [st |-> res.st, val |-> res.val]
FitReturned == pc = "returned" /\ res.op = "fit" /\ res.args.labels_ok
FitReturning == pc' = "returned" /\ res'.op = "fit" /\ res'.args.labels_ok

\* C1: a fit that ends in a validation failure (feat_dim against the raw
\* feature count without reduction, or a supplied basis that conflicts with
\* feat_dim or with the data) leaves every parameter field as it was before
\* the call.
C1_FailedFitLeavesModel ==
    [][(FitReturning /\ res'.args.pca_arg \in {"skip", "ext"} /\ res'.st = "ValueError")
          => params' = params]_vars

\* C2: on a model on which fit has never succeeded every transform,
\* get_dimensionality and logp_* call fails (the spec names the failure
\* NotFittedError; any exception is taken for it) and none returns a value.
NeverFitted == IsNone(m)
QueryOps == {"transform", "get_dimensionality", "logp_prior", "logp_posterior",
             "logp_posterior_predictive", "logp_marginal_likelihood"}
C2_UnfittedFails ==
    (pc = "returned" /\ res.op \in QueryOps /\ NeverFitted) => res.st # "ok"

\* C5: with pca=None the basis is fit to the rank of the within-category
\* scatter when feat_dim is not given and to feat_dim when it is, and the
\* divergence warning is emitted only for a given feat_dim that differs
\* from that rank.
C5_AutomaticReduction ==
    (FitReturned /\ res.args.pca_arg = "None") =>
        /\ (res.st = "ok" /\ res.args.feat_dim = 0) =>
               Get(heap.own.fit).n_components_ = res.args.data.rank_Sw
        /\ (res.st = "ok" /\ res.args.feat_dim # 0) =>
               Get(heap.own.fit).n_components_ = res.args.feat_dim
        /\ ("feat_dim" \in res.warn) <=>
               (res.args.feat_dim # 0 /\ res.args.feat_dim # res.args.data.rank_Sw)

\* C6: fit with a supplied basis makes that basis the model's D<->X mapping
\* and leaves the caller's object as it was supplied, and fails with
\* ConfigurationError when the basis's output dimensionality differs from a
\* given feat_dim or its input dimensionality from the data's feature count.
C6_SuppliedBasisReused ==
    [][(FitReturning /\ res'.args.pca_arg = "ext") =>
          LET f == Get(heap.ext.fit)
              conflict == \/ res'.args.feat_dim # 0 /\ f.n_components_ # res'.args.feat_dim
                          \/ res'.args.data.dim # f.n_features_
          IN  /\ heap'.ext = heap.ext
              /\ conflict => res'.st = "ValueError"
              /\ ~conflict => res'.st = "ok" /\ pca' = "ext"]_vars

\* C7: fit with pca="skip" succeeds when feat_dim is absent or equals the raw
\* feature count, and then D and X coincide (D to X and X to D are the
\* identity); it fails with ConfigurationError when feat_dim is given and
\* differs from the raw feature count.
C7_SkipReduction ==
    (FitReturned /\ res.args.pca_arg = "skip") =>
        IF res.args.feat_dim = 0 \/ res.args.feat_dim = res.args.data.dim
        THEN /\ res.st = "ok"
             /\ pca = "None"
             /\ get_dimensionality("D") = Ok(res.args.data.dim)
             /\ get_dimensionality("X") = Ok(res.args.data.dim)
             /\ \A v \in Vectors(AllRows(res.args.data.dim)) :
                   /\ transform(v, "D", "X") = Ok(Promote(v))
                   /\ transform(v, "X", "D") = Ok(Promote(v))
        ELSE res.st = "ValueError"

C7_Witness ==
    /\ FitReturned /\ res.args.pca_arg = "skip" /\ res.st = "ok"
    /\ res.args.feat_dim = res.args.data.dim /\ res.args.data.dim > 1

\* The fixed chain of the spaces, and the walk the spec prescribes from one
\* space to another: the adjacent pairs between them, in order.
Chain == <<"D", "X", "U", "U_model">>
ChainPos(space) == CHOOSE i \in 1..4 : Chain[i] = space
ChainWalk(from_space, to_space) ==
    LET a == ChainPos(from_space)
        b == ChainPos(to_space)
    IN  [i \in 1..Abs(b - a) |->
            IF b > a THEN <<Chain[a + i - 1], Chain[a + i]>>
            ELSE <<Chain[a - i + 1], Chain[a - i]>>]

RECURSIVE ApplySteps(_, _, _)
ApplySteps(r, steps, i) ==
    IF i > Len(steps) \/ ~IsOk(r) THEN r
    ELSE ApplySteps(Elementary(Get(r.val), steps[i][1], steps[i][2]), steps, i + 1)

\* then(r, F): F applied to the value of r, or the failure r
Then(r, F(_)) == IF IsOk(r) THEN F(Get(r.val)) ELSE r

TransformReturned == pc = "returned" /\ res.op = "transform"
\* the data has the width the model gives its space
WellShaped == get_dimensionality(res.args.from_space) = Ok(LastDim(res.args.data))

\* C3: for every pair of spaces transform applies exactly the elementary
\* mappings of the adjacent pairs of D-X-U-U_model between the two spaces, in
\* order, each output fed to the next: as many steps as the spaces are apart,
\* none when they are equal (the data comes back unchanged); and
\* transform(v, D, U_model) is U_to_U_model(X_to_U(D_to_X(v))).
C3_TransformWalksChain ==
    TransformReturned =>
        LET from_space == res.args.from_space
            to_space == res.args.to_space
            v == Promote(res.args.data)
            walk == get_space_walk(from_space, to_space)
        IN  /\ IsOk(walk)
            /\ Len(Get(walk.val)) = Abs(ChainPos(to_space) - ChainPos(from_space))
            /\ Get(walk.val) = ChainWalk(from_space, to_space)
            /\ Outcome = ApplySteps(Ok(v), ChainWalk(from_space, to_space), 1)
            /\ from_space = to_space => Outcome = Ok(v)
            /\ (from_space = "D" /\ to_space = "U_model") =>
                  Outcome =
                    Then(Then(transform_D_to_X(v, pca_obj),
                              LAMBDA x : transform_X_to_U(x, inv_A, m)),
                         LAMBDA u : transform_U_to_U_model(u, relevant_U_dims))

C3_Witness ==
    /\ TransformReturned /\ WellShaped /\ res.st = "ok"
    /\ res.args.from_space = "D" /\ res.args.to_space = "U_model"
    /\ pca # "None" /\ LastDim(res.args.data) > 1

\* transform(transform(v, A, B), B, A) for the call that has returned
RoundTrip == transform(Get(res.val), res.args.to_space, res.args.from_space)
RoundTripTwice ==
    Then(Then(RoundTrip,
              LAMBDA x : transform(x, res.args.from_space, res.args.to_space)),
         LAMBDA y : transform(y, res.args.to_space, res.args.from_space))
RoundTripCase == TransformReturned /\ WellShaped /\ res.st = "ok"

\* C4 as claimed: the round trip reconstructs v for any two spaces, except
\* U_model to U to U_model, which is idempotent.
C4_RoundTripAsClaimed ==
    RoundTripCase =>
        IF res.args.from_space = "U_model" /\ res.args.to_space = "U"
        THEN RoundTripTwice = RoundTrip
        ELSE RoundTrip = Ok(Promote(res.args.data))

\* the walk from from_space to to_space drops nothing
Discards == Len(Get(relevant_U_dims)) < Len(Get(A))
Reduces == pca # "None" /\ Get(heap[pca].fit).n_components_ < Get(heap[pca].fit).n_features_
Lossless(from_space, to_space) ==
    \/ ChainPos(from_space) >= ChainPos(to_space)
    \/ /\ ~(to_space = "U_model" /\ Discards)
       /\ ~(from_space = "D" /\ Reduces)

\* C4, amended: on a fitted model the round trip reconstructs v whenever the
\* walk from A to B applies neither U->U_model with discarded dimensions nor
\* D->X with a basis that reduces the dimension (so always when A does not
\* come before B in D-X-U-U_model); every round trip is idempotent; the one
\* that is no true inverse is U to U_model to U, where the discarded
\* dimensions become zero and the relevant ones are kept, while U_model to U
\* to U_model reconstructs v.
C4_RoundTrip ==
    RoundTripCase =>
        /\ Lossless(res.args.from_space, res.args.to_space) =>
               RoundTrip = Ok(Promote(res.args.data))
        /\ RoundTripTwice = RoundTrip
        /\ (res.args.from_space = "U" /\ res.args.to_space = "U_model") =>
               /\ IsOk(RoundTrip)
               /\ \A j \in 1..Len(Get(A)) :
                     Get(RoundTrip.val).el[1][j] =
                        IF \E i \in 1..Len(Get(relevant_U_dims)) : Get(relevant_U_dims)[i] = j
                        THEN Promote(res.args.data).el[1][j]
                        ELSE 0

C4_Witness ==
    /\ RoundTripCase /\ Discards
    /\ res.args.from_space = "U_model" /\ res.args.to_space = "D"
    /\ RoundTrip = Ok(Promote(res.args.data))
    /\ \E j \in 1..LastDim(res.args.data) : Promote(res.args.data).el[1][j] # 0

SameDiffReturned == pc = "returned" /\ res.op = "same_diff_log_likelihood_ratio"
MarginalReturned == pc = "returned" /\ res.op = "logp_marginal_likelihood"

\* the marginal likelihood of n samples written in their per-dimension sums
\* S and sums of squares Q:
\*   -(n/2) log(2 pi) - (1/2) log(n psi + 1) - Q/2 + psi S^2 / (2 (n psi + 1))
MarginalOfStatistics(n, S, Q) ==
    LET psi == Get(prior_params).cov_diag
    IN  LSumTo([j \in 1..Len(psi) |->
                  LVal(Rat(-n, 2), RAdd(RMul(RInt(n), psi[j]), RInt(1)),
                       RAdd(Rat(-Q[j], 2),
                            RDiv(RMul(psi[j], RInt(S[j] * S[j])),
                                 RMul(RInt(2), RAdd(RMul(RInt(n), psi[j]), RInt(1))))))],
               Len(psi))
ColumnSums(rows) == [j \in 1..Len(rows[1]) |-> SumTo([i \in 1..Len(rows) |-> rows[i][j]], Len(rows))]
ColumnSquares(rows) ==
    [j \in 1..Len(rows[1]) |-> SumTo([i \in 1..Len(rows) |-> rows[i][j] * rows[i][j]], Len(rows))]

\* C8: same_diff_log_likelihood_ratio(A, B) equals
\* same_diff_log_likelihood_ratio(B, A) for all batches A and B: the score
\* is the marginal likelihood of the joint batch's size, sums and sums of
\* squares, less the two separate marginal likelihoods.
C8_RatioSymmetric ==
    SameDiffReturned =>
        /\ calc_same_diff_log_likelihood_ratio(res.args.g, res.args.p) = Outcome
        /\ (res.st = "ok" /\ res.args.p.nd = 2 /\ res.args.g.nd = 2) =>
              LET P == res.args.p.el
                  G == res.args.g.el
              IN  Get(res.val) =
                    LSub(MarginalOfStatistics(Len(P) + Len(G),
                             [j \in 1..Len(P[1]) |-> ColumnSums(P)[j] + ColumnSums(G)[j]],
                             [j \in 1..Len(P[1]) |-> ColumnSquares(P)[j] + ColumnSquares(G)[j]]),
                         LAdd(MarginalOfStatistics(Len(P), ColumnSums(P), ColumnSquares(P)),
                              MarginalOfStatistics(Len(G), ColumnSums(G), ColumnSquares(G))))

C8_Witness ==
    /\ SameDiffReturned /\ res.st = "ok"
    /\ res.args.p.nd = 2 /\ res.args.g.nd = 2
    /\ Len(res.args.p.el) # Len(res.args.g.el)
    /\ ColumnSums(res.args.p.el) # ColumnSums(res.args.g.el)
    /\ LastDim(res.args.p) > 1

OneSample == MarginalReturned /\ res.st = "ok" /\ Len(Promote(res.args.data).el) = 1
Zeros(r) == [j \in 1..r |-> RInt(0)]

\* C9 as claimed: on one sample the marginal likelihood is the zero-mean
\* diagonal Gaussian log-density of covariance noise_diag + prior_cov_diag,
\* noise_diag being the model's field (Psi) on the relevant dimensions.
C9_SumOfNoiseAndPrior ==
    OneSample =>
        LET prior == Get(prior_params).cov_diag
            noise == [j \in 1..Len(prior) |-> RInt(Get(Psi)[Get(relevant_U_dims)[j]])]
        IN  Get(res.val) =
              gaussian_logpdf(Zeros(Len(prior)),
                              [j \in 1..Len(prior) |-> RAdd(noise[j], prior[j])],
                              res.args.data)[1]

\* C9, amended: on one sample the marginal likelihood is the zero-mean
\* diagonal Gaussian log-density of covariance 1 + prior_cov_diag: the noise
\* variance of U_model is one in every dimension, whatever the model's
\* noise_diag; this for every sample and every positive prior variance.
C9_UnitNoisePlusPrior ==
    OneSample =>
        LET prior == Get(prior_params).cov_diag
        IN  Get(res.val) =
              gaussian_logpdf(Zeros(Len(prior)),
                              [j \in 1..Len(prior) |-> RAdd(RInt(1), prior[j])],
                              res.args.data)[1]

C9_Witness ==
    /\ OneSample
    /\ \E j \in 1..LastDim(res.args.data) :
          /\ Promote(res.args.data).el[1][j] # 0
          /\ Get(prior_params).cov_diag[j] # RInt(1)

\* np.vstack of the two inputs, each a batch
Stack(p, g) == Arr2(Promote(p).el \o Promote(g).el)

\* C10: for inputs p and g that logp_marginal_likelihood accepts, a 1-D
\* vector or a 2-D batch each, the ratio is LL(joint) - (LL(p) + LL(g)) with
\* joint the batch of the n_p + n_g samples; the call does not fail.
C10_RatioOfAcceptedInputs ==
    (/\ SameDiffReturned
     /\ IsOk(calc_logp_marginal_likelihood(res.args.p))
     /\ IsOk(calc_logp_marginal_likelihood(res.args.g))) =>
        /\ res.st = "ok"
        /\ Outcome =
              Ok(LSub(Get(calc_logp_marginal_likelihood(Stack(res.args.p, res.args.g)).val),
                      LAdd(Get(calc_logp_marginal_likelihood(res.args.p).val),
                           Get(calc_logp_marginal_likelihood(res.args.g).val))))

====
